---- MODULE Spec2Model ----
(***************************************************************************)
(* Model of app.py: two CSV tables loaded at import time, and the Flask     *)
(* handlers home, check_outbreak, test_check and get_remedy that filter     *)
(* them.  A text value is a sequence of one-character strings; a missing    *)
(* cell of a table is NaN.                                                  *)
(***************************************************************************)
EXTENDS Naturals, Sequences, FiniteSets

VARIABLES
    data_csv,       \* the file at DATA_CSV_PATH
    remedies_csv,   \* the file at REMEDY_CSV_PATH
    pc,             \* "load_data", "load_remedy", "serving" or "exited"
    exit_code,      \* the argument of sys.exit, 0 while the process lives
    data,           \* the outbreak DataFrame
    remedy_data,    \* the remedy DataFrame
    request,        \* the request being answered, NoRequest when idle
    response        \* what its handler produced, NoResponse when idle

vars == <<data_csv, remedies_csv, pc, exit_code, data, remedy_data, request, response>>

----------------------------------------------------------------------------
(* Bounds of the model. *)

\* longest text of a request parameter
MaxLen == 2
\* most rows of a table
MaxRows == 2

----------------------------------------------------------------------------
(* Text: str.strip, str.lower, str.title, sorted, unique, ", ".join *)

LowerCase == {"a", "b", "x", "y"}
UpperCase == {"A", "B", "X", "Y"}

NaN == <<"NaN">>

IsSpace(c) == c = " "
IsCased(c) == c \in LowerCase \cup UpperCase

LowerChar(c) ==
    CASE c = "A" -> "a" [] c = "B" -> "b" [] c = "X" -> "x" [] c = "Y" -> "y"
      [] OTHER -> c

UpperChar(c) ==
    CASE c = "a" -> "A" [] c = "b" -> "B" [] c = "x" -> "X" [] c = "y" -> "Y"
      [] OTHER -> c

\* the code point of a character, which is what sorted() compares
Ord(c) ==
    CASE c = " " -> 32 [] c = "," -> 44
      [] c = "A" -> 65 [] c = "B" -> 66 [] c = "X" -> 88 [] c = "Y" -> 89
      [] c = "a" -> 97 [] c = "b" -> 98 [] c = "x" -> 120 [] c = "y" -> 121
      [] OTHER -> 0

RECURSIVE lstrip(_)
lstrip(s) == IF s # <<>> /\ IsSpace(Head(s)) THEN lstrip(Tail(s)) ELSE s

RECURSIVE rstrip(_)
rstrip(s) ==
    IF s # <<>> /\ IsSpace(s[Len(s)]) THEN rstrip(SubSeq(s, 1, Len(s) - 1)) ELSE s

strip(s) == rstrip(lstrip(s))

lower(s) == [i \in 1..Len(s) |-> LowerChar(s[i])]

\* str.title: a cased character is upper-cased when it starts a run of cased
\* characters and lower-cased inside the run
title(s) ==
    [i \in 1..Len(s) |->
        IF ~IsCased(s[i]) THEN s[i]
        ELSE IF i > 1 /\ IsCased(s[i - 1]) THEN LowerChar(s[i])
        ELSE UpperChar(s[i])]

\* Series.str.lower / .str.strip / .str.title leave NaN as NaN
str_lower(cell) == IF cell = NaN THEN NaN ELSE lower(cell)

\* Series.dropna
dropna(col) == SelectSeq(col, LAMBDA c : c # NaN)

\* unique left out: every value, repeated as often as it appears
unique_omitted(col) == col

\* Series.unique: the distinct values in the order of first appearance
RECURSIVE unique(_)
unique(col) ==
    IF col = <<>> THEN <<>>
    ELSE LET init == unique(SubSeq(col, 1, Len(col) - 1))
             last == col[Len(col)]
         IN  IF \E i \in 1..Len(init) : init[i] = last THEN init
             ELSE Append(init, last)

\* s < t as Python compares str
RECURSIVE StrLess(_, _)
StrLess(s, t) ==
    IF t = <<>> THEN FALSE
    ELSE IF s = <<>> THEN TRUE
    ELSE IF Ord(Head(s)) # Ord(Head(t)) THEN Ord(Head(s)) < Ord(Head(t))
    ELSE StrLess(Tail(s), Tail(t))

RECURSIVE Insert(_, _)
Insert(x, sortedSeq) ==
    IF sortedSeq = <<>> THEN <<x>>
    ELSE IF StrLess(x, Head(sortedSeq)) THEN <<x>> \o sortedSeq
    ELSE <<Head(sortedSeq)>> \o Insert(x, Tail(sortedSeq))

RECURSIVE sorted(_)
sorted(list) == IF list = <<>> THEN <<>> ELSE Insert(Head(list), sorted(Tail(list)))

RECURSIVE join(_, _)
join(sep, list) ==
    IF list = <<>> THEN <<>>
    ELSE IF Len(list) = 1 THEN list[1]
    ELSE list[1] \o sep \o join(sep, Tail(list))

\* the .str accessor exists on an object column only: read_csv gives a column
\* with rows but no text in any of them the dtype float64, and .str raises
\* AttributeError on it
has_str(col) == col = <<>> \/ \E i \in 1..Len(col) : col[i] # NaN

----------------------------------------------------------------------------
(* The two files and their load (module level, lines 19-42) *)

NaT == [d |-> 0, m |-> 0, y |-> 0]

IsLeap(y) == (y % 4 = 0 /\ y % 100 # 0) \/ y % 400 = 0

DaysInMonth(m, y) ==
    IF m = 2 THEN (IF IsLeap(y) THEN 29 ELSE 28)
    ELSE IF m \in {4, 6, 9, 11} THEN 30 ELSE 31

\* DATE_FORMAT = '%d-%m-%Y': day, month and year separated by "-"
DATE_FORMAT(t) ==
    /\ t.sep = "-"
    /\ t.m \in 1..12
    /\ t.d \in 1..DaysInMonth(t.m, t.y)

\* pd.to_datetime(..., format=DATE_FORMAT, errors='coerce') on one cell
to_datetime(t) == IF DATE_FORMAT(t) THEN [d |-> t.d, m |-> t.m, y |-> t.y] ELSE NaT

\* what the first try block leaves in `data`
LoadedData(file) ==
    [i \in 1..Len(file.rows) |->
        [state     |-> file.rows[i].state,
         district  |-> file.rows[i].district,
         disease   |-> file.rows[i].disease,
         start     |-> to_datetime(file.rows[i].start),
         reporting |-> to_datetime(file.rows[i].reporting)]]

\* what the second try block leaves in `remedy_data`
LoadedRemedies(file) == [columns |-> file.columns, rows |-> file.rows]

NoTable == <<>>
NoRemedyTable == [columns |-> {}, rows |-> <<>>]

FileStatus == {"ok", "missing", "unreadable", "unparsable"}

\* sys.exit left out of the except branches: the load goes on with no rows
load_data_without_exit ==
    /\ pc = "load_data"
    /\ data' = IF data_csv.status = "ok" THEN LoadedData(data_csv) ELSE NoTable
    /\ pc' = "load_remedy"
    /\ UNCHANGED <<data_csv, remedies_csv, exit_code, remedy_data, request, response>>

\* lines 19-31: read data.csv and convert its two date columns, or exit
load_data ==
    /\ pc = "load_data"
    /\ IF data_csv.status = "ok"
       THEN /\ data' = LoadedData(data_csv)
            /\ pc' = "load_remedy"
            /\ UNCHANGED exit_code
       ELSE \* FileNotFoundError, or any other Exception: sys.exit(1)
            /\ pc' = "exited"
            /\ exit_code' = 1
            /\ UNCHANGED data
    /\ UNCHANGED <<data_csv, remedies_csv, remedy_data, request, response>>

\* lines 33-42: read remedies.csv, or exit
load_remedy_data ==
    /\ pc = "load_remedy"
    /\ IF remedies_csv.status = "ok"
       THEN /\ remedy_data' = LoadedRemedies(remedies_csv)
            /\ pc' = "serving"
            /\ UNCHANGED exit_code
       ELSE /\ pc' = "exited"
            /\ exit_code' = 1
            /\ UNCHANGED remedy_data
    /\ UNCHANGED <<data_csv, remedies_csv, data, request, response>>

----------------------------------------------------------------------------
(* Requests and responses *)

\* a field of a JSON body or of the query string: a text, absent, or (JSON
\* only) a value that is no text: null, a number, a list, an object
Text(s) == [kind |-> "str", val |-> s]
Absent == [kind |-> "absent", val |-> <<>>]
NotText == [kind |-> "other", val |-> <<>>]

NoRequest ==
    [route |-> "", method |-> "", body |-> "", state |-> Absent, district |-> Absent,
     disease |-> Absent]

NoResponse ==
    [status |-> 0, kind |-> "", msg |-> "", keys |-> {}, district |-> <<>>,
     state |-> <<>>, outbreak_str |-> <<>>, disease |-> <<>>, remedies |-> <<>>]

\* return "<text>", status
PlainText(status, msg, district, state, outbreak_str) ==
    [NoResponse EXCEPT !.status = status, !.kind = "text", !.msg = msg,
                       !.district = district, !.state = state,
                       !.outbreak_str = outbreak_str]

\* return jsonify({"error": msg}), status
JsonError(status, msg) ==
    [NoResponse EXCEPT !.status = status, !.kind = "json", !.msg = msg,
                       !.keys = {"error"}]

\* the disease key left out of the object
JsonRemedies_without_disease(status, disease, remedies) ==
    [NoResponse EXCEPT !.status = status, !.kind = "json", !.keys = {"remedies"},
                       !.remedies = remedies]

\* return jsonify({"disease": disease, "remedies": remedies}), status
JsonRemedies(status, disease, remedies) ==
    [NoResponse EXCEPT !.status = status, !.kind = "json",
                       !.keys = {"disease", "remedies"},
                       !.disease = disease, !.remedies = remedies]

\* the view function raised: Flask answers for it with its own 500 page
Unhandled(exc) ==
    [NoResponse EXCEPT !.status = 500, !.kind = "exception", !.msg = exc]

\* dict.get(key, "") and request.args.get(key, "")
get(field) == IF field.kind = "absent" THEN <<>> ELSE field.val

----------------------------------------------------------------------------
(* Outbreak lookup, lines 51-102 *)

column(rows, name) == [i \in 1..Len(rows) |-> rows[i][name]]

unspecified_diseases == <<"unspecified diseases">>

\* lines 77-80: the rows whose lower-cased state and district equal the query
filtered(state, district) ==
    SelectSeq(data, LAMBDA r : /\ str_lower(r.state) = state
                               /\ str_lower(r.district) = district)

\* lines 84-86
unique_diseases(rows) ==
    LET present == dropna(column(rows, "disease"))
        titled == [i \in 1..Len(present) |-> title(strip(present[i]))]
    IN  sorted(unique(titled))

\* lines 74-102
get_outbreak_response(state, district) ==
    LET rows == filtered(state, district)
        failed == PlainText(500, "An error occurred while checking for outbreaks",
                            title(district), title(state), <<>>)
    IN  IF ~has_str(column(data, "state")) \/ ~has_str(column(data, "district"))
        THEN failed
        ELSE IF rows # <<>>
        THEN IF ~has_str(column(data, "disease"))
             THEN failed
             ELSE LET diseases == unique_diseases(rows)
                      outbreak_str == IF diseases # <<>>
                                      THEN join(<<",", " ">>, diseases)
                                      ELSE unspecified_diseases
                  IN  PlainText(200, "Alert! Your area has reported disease outbreak(s)",
                                title(district), title(state), outbreak_str)
        ELSE PlainText(200, "Good news! no reported disease outbreaks",
                       title(district), title(state), <<>>)

\* lines 53-62, the body of check_outbreak
check_outbreak_view(req) ==
    IF req.body = "empty"
    THEN PlainText(400, "Error: No JSON data received.", <<>>, <<>>, <<>>)
    ELSE IF req.body # "object" \/ req.state.kind = "other"
    THEN Unhandled("AttributeError")
    ELSE IF req.district.kind = "other"
    THEN Unhandled("AttributeError")
    ELSE LET state == lower(strip(get(req.state)))
             district == lower(strip(get(req.district)))
         IN  IF state = <<>> \/ district = <<>>
             THEN PlainText(400, "Error: Both 'state' and 'district' are required.",
                            <<>>, <<>>, <<>>)
             ELSE get_outbreak_response(state, district)

\* lines 66-72, the body of test_check
test_check_view(req) ==
    LET state == lower(strip(get(req.state)))
        district == lower(strip(get(req.district)))
    IN  IF state = <<>> \/ district = <<>>
        THEN PlainText(400,
                 "Error: Both 'state' and 'district' query parameters are required.",
                 <<>>, <<>>, <<>>)
        ELSE get_outbreak_response(state, district)

----------------------------------------------------------------------------
(* Remedy lookup, lines 105-153 *)

missing_disease_column == <<"Error: Remedy data format issue (Missing 'Disease' column).">>
no_specific_remedies ==
    <<"No specific remedies listed for this disease, although it was found.">>
no_remedy_found == <<"No Ayurvedic remedy found for this specific disease in our database.">>
remedy_error == <<"An error occurred while searching for remedies. Please try again later.">>

fillna(cell, value) == IF cell = NaN THEN value ELSE cell

\* line 127: the rows whose lower-cased Disease equals the query
remedies_of(disease_input) ==
    SelectSeq(remedy_data.rows,
              LAMBDA r : fillna(str_lower(r.Disease), <<>>) = disease_input)

\* the column test of line 121 made on 'Remedy' instead of 'Disease'
remedy_lookup_tests_remedy_column(disease_input) ==
    LET failed == JsonRemedies(500, title(disease_input), <<remedy_error>>)
        remedies == remedies_of(disease_input)
    IN  IF "Remedy" \notin remedy_data.columns
        THEN JsonRemedies(500, title(disease_input), <<missing_disease_column>>)
        ELSE IF "Disease" \notin remedy_data.columns
                \/ ~has_str(column(remedy_data.rows, "Disease"))
        THEN failed
        ELSE IF remedies # <<>>
        THEN LET remedy_list == unique(dropna(column(remedies, "Remedy")))
             IN  IF remedy_list = <<>>
                 THEN JsonRemedies(200, title(disease_input), <<no_specific_remedies>>)
                 ELSE JsonRemedies(200, title(disease_input), remedy_list)
        ELSE JsonRemedies(200, title(disease_input), <<no_remedy_found>>)

\* lines 119-153, the try block of get_remedy
remedy_lookup(disease_input) ==
    LET failed == JsonRemedies(500, title(disease_input), <<remedy_error>>)
        remedies == remedies_of(disease_input)
    IN  IF "Disease" \notin remedy_data.columns
        THEN JsonRemedies(500, title(disease_input), <<missing_disease_column>>)
        ELSE IF ~has_str(column(remedy_data.rows, "Disease"))
        THEN failed
        ELSE IF remedies # <<>>
        THEN IF "Remedy" \notin remedy_data.columns
             THEN failed    \* KeyError: 'Remedy'
             ELSE LET remedy_list == unique(dropna(column(remedies, "Remedy")))
                  IN  IF remedy_list = <<>>
                      THEN JsonRemedies(200, title(disease_input),
                                        <<no_specific_remedies>>)
                      ELSE JsonRemedies(200, title(disease_input), remedy_list)
        ELSE JsonRemedies(200, title(disease_input), <<no_remedy_found>>)

\* lines 106-153, the body of get_remedy
get_remedy_view(req) ==
    IF req.method = "POST" /\ req.body = "empty"
    THEN JsonError(400, "No JSON data received.")
    ELSE IF req.method = "POST" /\ (req.body # "object" \/ req.disease.kind = "other")
    THEN Unhandled("AttributeError")
    ELSE LET disease_input == lower(strip(get(req.disease)))
         IN  IF disease_input = <<>>
             THEN JsonError(400, "Disease parameter is required.")
             ELSE remedy_lookup(disease_input)

----------------------------------------------------------------------------
(* What a client may send *)

QueryChars == {"a", "A", " "}

Texts(chars, n) == UNION {[1..k -> chars] : k \in 0..n}

QueryTexts == {Text(s) : s \in Texts(QueryChars, MaxLen)}

\* a field of a JSON object, and a parameter of a query string
JsonFields == QueryTexts \cup {Absent, NotText}
ArgFields == QueryTexts \cup {Absent}

\* request.get_json(): a falsy value (null, {}, [], 0, ""), a truthy value that
\* is no object, or an object with at least one key
JsonBodies == {"empty", "nonobject", "object"}

----------------------------------------------------------------------------
(* The handlers *)

Idle == pc = "serving" /\ request = NoRequest

\* lines 47-49
home ==
    /\ Idle
    /\ request' = [NoRequest EXCEPT !.route = "/", !.method = "GET"]
    /\ response' = PlainText(200, "Backend is running!", <<>>, <<>>, <<>>)
    /\ UNCHANGED <<data_csv, remedies_csv, pc, exit_code, data, remedy_data>>

\* lines 51-62
check_outbreak ==
    /\ Idle
    /\ \E body \in JsonBodies, state \in JsonFields, district \in JsonFields :
          /\ body # "object" => state = Absent /\ district = Absent
          /\ request' = [NoRequest EXCEPT !.route = "/check-outbreak", !.method = "POST",
                                          !.body = body, !.state = state,
                                          !.district = district]
    /\ response' = check_outbreak_view(request')
    /\ UNCHANGED <<data_csv, remedies_csv, pc, exit_code, data, remedy_data>>

\* lines 64-72
test_check ==
    /\ Idle
    /\ \E state \in ArgFields, district \in ArgFields :
          request' = [NoRequest EXCEPT !.route = "/test-check", !.method = "GET",
                                       !.state = state, !.district = district]
    /\ response' = test_check_view(request')
    /\ UNCHANGED <<data_csv, remedies_csv, pc, exit_code, data, remedy_data>>

\* dropna(inplace=True) on the table itself: the rows without remedy text go
get_remedy_dropna_inplace ==
    /\ Idle
    /\ \/ \E body \in JsonBodies, disease \in JsonFields :
             /\ body # "object" => disease = Absent
             /\ request' = [NoRequest EXCEPT !.route = "/get-remedy", !.method = "POST",
                                             !.body = body, !.disease = disease]
       \/ \E disease \in ArgFields :
             request' = [NoRequest EXCEPT !.route = "/get-remedy", !.method = "GET",
                                          !.disease = disease]
    /\ response' = get_remedy_view(request')
    /\ remedy_data' = [remedy_data EXCEPT
                          !.rows = SelectSeq(remedy_data.rows, LAMBDA r : r.Remedy # NaN)]
    /\ UNCHANGED <<data_csv, remedies_csv, pc, exit_code, data>>

\* lines 105-153
get_remedy ==
    /\ Idle
    /\ \/ \E body \in JsonBodies, disease \in JsonFields :
             /\ body # "object" => disease = Absent
             /\ request' = [NoRequest EXCEPT !.route = "/get-remedy", !.method = "POST",
                                             !.body = body, !.disease = disease]
       \/ \E disease \in ArgFields :
             request' = [NoRequest EXCEPT !.route = "/get-remedy", !.method = "GET",
                                          !.disease = disease]
    /\ response' = get_remedy_view(request')
    /\ UNCHANGED <<data_csv, remedies_csv, pc, exit_code, data, remedy_data>>

\* line 157, app.run: the response goes out and the worker takes the next request
send_response ==
    /\ pc = "serving"
    /\ request # NoRequest
    /\ request' = NoRequest
    /\ response' = NoResponse
    /\ UNCHANGED <<data_csv, remedies_csv, pc, exit_code, data, remedy_data>>

Next ==
    \/ load_data
    \/ load_remedy_data
    \/ home
    \/ check_outbreak
    \/ test_check
    \/ get_remedy
    \/ send_response

----------------------------------------------------------------------------
(* The files the process may find at startup *)

GoodDate == [d |-> 15, m |-> 8, y |-> 2023, sep |-> "-"]
DateTexts ==
    {GoodDate,
     [d |-> 31, m |-> 2, y |-> 2023, sep |-> "-"],
     [d |-> 15, m |-> 8, y |-> 2023, sep |-> "/"]}

StateCells == {<<"a">>, <<" ", "A">>}
DistrictCells == {<<"a">>, <<"A", " ">>}
DiseaseCells == {NaN, <<" ">>, <<"a">>, <<"b">>}
RemedyDiseaseCells == {NaN, <<"a">>, <<" ", "A">>}
RemedyCells == {NaN, <<"y">>, <<"x">>}

Tables(rows) == UNION {[1..k -> rows] : k \in 0..MaxRows}

OutbreakRows ==
    {[state |-> s, district |-> d, disease |-> i, start |-> GoodDate, reporting |-> GoodDate] :
        s \in StateCells, d \in DistrictCells, i \in DiseaseCells}

DatedRows ==
    {[state |-> <<"a">>, district |-> <<"a">>, disease |-> <<"a">>, start |-> t, reporting |-> u] :
        t \in DateTexts, u \in DateTexts}

RemedyRows(columns) ==
    {[Disease |-> d, Remedy |-> r] :
        d \in (IF "Disease" \in columns THEN RemedyDiseaseCells ELSE {NaN}),
        r \in (IF "Remedy" \in columns THEN RemedyCells ELSE {NaN})}

ReferenceData ==
    [status |-> "ok",
     rows |-> <<[state |-> <<"a">>, district |-> <<"a">>, disease |-> <<"a">>,
                 start |-> GoodDate, reporting |-> GoodDate]>>]

ReferenceRemedies ==
    [status |-> "ok", columns |-> {"Disease", "Remedy"},
     rows |-> <<[Disease |-> <<"a">>, Remedy |-> <<"x">>]>>]

BadData == {[status |-> s, rows |-> <<>>] : s \in FileStatus \ {"ok"}}
BadRemedies == {[status |-> s, columns |-> {}, rows |-> <<>>] : s \in FileStatus \ {"ok"}}

OutbreakFiles == {[status |-> "ok", rows |-> t] : t \in Tables(OutbreakRows)}
DatedFiles == {[status |-> "ok", rows |-> t] : t \in Tables(DatedRows)}
RemedyFilesWith(columns) ==
    {[status |-> "ok", columns |-> columns, rows |-> t] : t \in Tables(RemedyRows(columns))}
RemedyFiles ==
    UNION {RemedyFilesWith(c) : c \in {{"Disease", "Remedy"}, {"Disease"}, {"Remedy"}}}

Boot ==
    /\ pc = "load_data"
    /\ exit_code = 0
    /\ data = NoTable
    /\ remedy_data = NoRemedyTable
    /\ request = NoRequest
    /\ response = NoResponse

\* the outbreak file varies
InitOutbreak ==
    /\ data_csv \in OutbreakFiles \cup BadData
    /\ remedies_csv \in {ReferenceRemedies} \cup BadRemedies
    /\ Boot

\* the remedy file varies
InitRemedy ==
    /\ data_csv \in {ReferenceData} \cup BadData
    /\ remedies_csv \in RemedyFiles \cup BadRemedies
    /\ Boot

\* the dates of the outbreak file and the state of both files vary
InitLoad ==
    /\ data_csv \in DatedFiles \cup BadData
    /\ remedies_csv \in {ReferenceRemedies} \cup BadRemedies
    /\ Boot

\* one of the two files varies while the other holds its reference content
Init == InitOutbreak \/ InitRemedy \/ InitLoad

Spec == Init /\ [][Next]_vars
SpecOutbreak == InitOutbreak /\ [][Next]_vars
SpecRemedy == InitRemedy /\ [][Next]_vars
SpecLoad == InitLoad /\ [][Next]_vars

----------------------------------------------------------------------------
(* Vocabulary of the properties *)

\* the normalization of the glossary: trim, then lower-case
Normalize(s) == lower(strip(s))

Answered == pc = "serving" /\ request # NoRequest

OutbreakRequest == request.route \in {"/check-outbreak", "/test-check"}
RemedyRequest == request.route = "/get-remedy"

\* the request carries a JSON object when it is a POST
HasObject == request.method = "POST" => request.body = "object"

IsAlert == response.status = 200 /\ response.msg = "Alert! Your area has reported disease outbreak(s)"
IsGoodNews == response.status = 200 /\ response.msg = "Good news! no reported disease outbreaks"

MissingParameterMessages ==
    {"Error: Both 'state' and 'district' are required.",
     "Error: Both 'state' and 'district' query parameters are required.",
     "Disease parameter is required."}

\* absent, empty or whitespace-only
Blank(field) == field.kind = "absent" \/ (field.kind = "str" /\ strip(field.val) = <<>>)

\* the rows of the outbreak table that are the queried pair up to letter case
\* and surrounding whitespace
PairRows ==
    {i \in 1..Len(data) :
        /\ Normalize(data[i].state) = Normalize(request.state.val)
        /\ Normalize(data[i].district) = Normalize(request.district.val)}

\* the diseases of a set of rows, trimmed and title-cased
DiseasesOf(rowSet) ==
    {title(strip(data[i].disease)) : i \in {j \in rowSet : data[j].disease # NaN}} \ {<<>>}

\* a finite set of texts in ascending order
Ascending(S) ==
    CHOOSE q \in [1..Cardinality(S) -> S] :
        \A i, j \in 1..Cardinality(S) : i < j => StrLess(q[i], q[j])

----------------------------------------------------------------------------
\* C1: for every (state, district) pair of the outbreak table and every
\* variation of the query's letter case and surrounding whitespace, the
\* outbreak lookup returns the alert, and its disease list is the distinct
\* title-cased diseases of the matching rows, ascending, joined with ", ".
C1_AlertForEveryTablePair ==
    (Answered /\ OutbreakRequest /\ HasObject
        /\ request.state.kind = "str" /\ request.district.kind = "str"
        /\ PairRows # {})
    => /\ IsAlert
       /\ DiseasesOf(PairRows) # {}
            => response.outbreak_str = join(<<",", " ">>, Ascending(DiseasesOf(PairRows)))

----------------------------------------------------------------------------
\* the matching rows of a remedy lookup: those the filter of line 127 selects
MatchingRows ==
    {i \in 1..Len(remedy_data.rows) :
        /\ remedy_data.rows[i].Disease # NaN
        /\ lower(remedy_data.rows[i].Disease) = Normalize(request.disease.val)}

RemedyTexts == {remedy_data.rows[i].Remedy : i \in MatchingRows} \ {NaN}

FirstRow(text) ==
    CHOOSE i \in MatchingRows :
        /\ remedy_data.rows[i].Remedy = text
        /\ \A j \in MatchingRows : remedy_data.rows[j].Remedy = text => i <= j

----------------------------------------------------------------------------
\* C3: every comparison of a lookup normalizes both the stored value and the
\* query value by trimming and lower-casing: a stored state, district or
\* disease name that differs from the query only in letter case or surrounding
\* whitespace is a match, in the outbreak lookup and in the remedy lookup.
C3_BothSidesNormalized ==
    /\ (Answered /\ OutbreakRequest /\ HasObject
            /\ request.state.kind = "str" /\ request.district.kind = "str"
            /\ PairRows # {})
       => ~IsGoodNews
    /\ (Answered /\ RemedyRequest /\ HasObject /\ request.disease.kind = "str"
            /\ \E i \in 1..Len(remedy_data.rows) :
                  /\ remedy_data.rows[i].Disease # NaN
                  /\ "Disease" \in remedy_data.columns
                  /\ Normalize(remedy_data.rows[i].Disease)
                        = Normalize(request.disease.val))
       => response.remedies # <<no_remedy_found>>

----------------------------------------------------------------------------
\* C4: whatever the body or the parameter values, a non-text or null field
\* included, the handler itself returns a response with status 200, 400 or 500
\* and lets no exception propagate.
C4_NoExceptionEscapes ==
    Answered => /\ response.kind # "exception"
                /\ response.status \in {200, 400, 500}

----------------------------------------------------------------------------
\* C5: whenever state or district (outbreak lookup) or disease (remedy lookup)
\* is absent, empty or whitespace-only, the answer is 400 with the
\* missing-parameter message, on every route and method and whatever the
\* other parameter is.
C5_BlankParameterIs400 ==
    (Answered
        /\ \/ OutbreakRequest /\ (Blank(request.state) \/ Blank(request.district))
           \/ RemedyRequest /\ Blank(request.disease))
    => /\ response.status = 400
       /\ response.msg \in MissingParameterMessages

----------------------------------------------------------------------------
\* the remedy lookup got a usable disease name: the try block ran
RemedyLookupRan ==
    /\ Answered /\ RemedyRequest /\ HasObject
    /\ request.disease.kind = "str"
    /\ Normalize(request.disease.val) # <<>>

----------------------------------------------------------------------------
\* C7 as stated: with the Remedy column missing from the remedy table, a lookup
\* with a non-empty disease returns 500 with a message about the missing column,
\* not the generic one, and the process keeps serving.
C7_MissingRemedyColumnIsReported ==
    (RemedyLookupRan /\ "Remedy" \notin remedy_data.columns)
    => /\ response.status = 500
       /\ response.remedies # <<remedy_error>>
       /\ exit_code = 0

\* C7 as amended: the column whose absence is reported is Disease: without it a
\* lookup with a non-empty disease returns 500 with the missing-column message.
\* Without the Remedy column the lookup returns 500 with the generic message
\* when a row matches (or no Disease cell holds text), and 200 with the
\* no-remedy-found placeholder otherwise.  The process keeps serving.
C7_MissingDiseaseColumnIsReported ==
    /\ (RemedyLookupRan /\ "Disease" \notin remedy_data.columns)
       => /\ response.status = 500
          /\ response.remedies = <<missing_disease_column>>
          /\ exit_code = 0
    /\ (RemedyLookupRan /\ remedy_data.columns = {"Disease"})
       => /\ IF \/ MatchingRows # {}
                \/ /\ remedy_data.rows # <<>>
                   /\ \A i \in 1..Len(remedy_data.rows) : remedy_data.rows[i].Disease = NaN
             THEN /\ response.status = 500
                  /\ response.remedies = <<remedy_error>>
             ELSE /\ response.status = 200
                  /\ response.remedies = <<no_remedy_found>>
          /\ exit_code = 0

\* a lookup against a table that has rows but no Disease column
C7_Witness ==
    /\ RemedyLookupRan
    /\ remedy_data.columns = {"Remedy"}
    /\ remedy_data.rows # <<>>
    /\ response.status = 500
    /\ response.remedies = <<missing_disease_column>>

----------------------------------------------------------------------------
\* C8: startup is fail-fast: a missing, unreadable or unparsable source makes
\* the process exit with a non-zero code before any request is served; a
\* request is handled only after both tables are loaded; a date that does not
\* parse is stored as null and does not abort startup.
C8_FailFastStartup ==
    /\ (request # NoRequest \/ response # NoResponse) => pc = "serving"
    /\ pc = "serving"
        => /\ data_csv.status = "ok" /\ remedies_csv.status = "ok"
           /\ exit_code = 0
           /\ Len(data) = Len(data_csv.rows)
           /\ remedy_data.rows = remedies_csv.rows
           /\ \A i \in 1..Len(data) :
                 /\ data[i].start = NaT <=> ~DATE_FORMAT(data_csv.rows[i].start)
                 /\ data[i].reporting = NaT <=> ~DATE_FORMAT(data_csv.rows[i].reporting)
    /\ pc = "exited"
        => /\ exit_code # 0
           /\ data_csv.status # "ok" \/ remedies_csv.status # "ok"
    /\ data_csv.status # "ok" => pc \in {"load_data", "exited"}
    /\ remedies_csv.status # "ok" => pc \in {"load_data", "load_remedy", "exited"}

\* a request answered by a process whose outbreak file held a date that does
\* not parse
C8_Witness ==
    /\ Answered
    /\ \E i \in 1..Len(data) :
          /\ ~DATE_FORMAT(data_csv.rows[i].start)
          /\ data[i].start = NaT
          /\ data[i].reporting # NaT

----------------------------------------------------------------------------
\* what the handler of a request answers in the current state
AnswerNow ==
    CASE request.route = "/check-outbreak" -> check_outbreak_view(request)
      [] request.route = "/test-check" -> test_check_view(request)
      [] request.route = "/get-remedy" -> get_remedy_view(request)
      [] OTHER -> PlainText(200, "Backend is running!", <<>>, <<>>, <<>>)

\* C9: no handler, on any path, changes the outbreak table or the remedy table,
\* so an identical query asked again gets the identical response.
C9_TablesImmutable ==
    /\ [][pc = "serving" => /\ data' = data
                            /\ remedy_data' = remedy_data
                            /\ data_csv' = data_csv
                            /\ remedies_csv' = remedies_csv]_vars
    /\ [](Answered => /\ response = AnswerNow
                      /\ data = LoadedData(data_csv)
                      /\ remedy_data = LoadedRemedies(remedies_csv))

\* a remedy lookup answered from a table that holds a row without remedy text
C9_Witness ==
    /\ RemedyLookupRan
    /\ response.status = 200
    /\ MatchingRows # {}
    /\ \E i \in 1..Len(remedy_data.rows) : remedy_data.rows[i].Remedy = NaN
    /\ remedy_data = LoadedRemedies(remedies_csv)

----------------------------------------------------------------------------
\* C10: when a row matches the pair and the disease of every matching row is
\* null or blank, the alert names "unspecified diseases"; a blank disease is
\* never an (empty) entry of the list.
C10_BlankDiseasesAreUnspecified ==
    LET state == Normalize(request.state.val)
        district == Normalize(request.district.val)
        rows == filtered(state, district)
    IN  (Answered /\ OutbreakRequest /\ HasObject
            /\ request.state.kind = "str" /\ request.district.kind = "str"
            /\ rows # <<>>
            /\ \A i \in 1..Len(rows) :
                  rows[i].disease = NaN \/ strip(rows[i].disease) = <<>>)
        => /\ IsAlert
           /\ response.outbreak_str = unspecified_diseases

====
